---- MODULE Spec2Model ----
(***************************************************************************)
(* Model of the SIR simulation drivers (src/src/simulation.py), the        *)
(* transmission-rate policies (src/src/adaptive_control.py) and the SIR    *)
(* dynamics and statistics (src/src/sir_model.py).                         *)
(*                                                                         *)
(* Numbers.  The program computes in floating point.  The model uses       *)
(* fixed-point integers: a rate, a fraction of the population or a factor  *)
(* x is the integer x * Scale, and a product of two of them is divided by  *)
(* Scale (rounding down).  Time is counted in whole ticks.                 *)
(***************************************************************************)
EXTENDS Integers, Sequences, FiniteSets, TLC

\* ------------------------------------------------------------------ bounds
\* Largest end of a time span, largest control interval, largest step size,
\* number of run_scenario calls in one behaviour, number of direct calls of
\* the adaptive policy in one behaviour.
MaxT == 3
MaxInterval == 2
MaxDt == 2
MaxRuns == 2
MaxIdleCalls == 2

\* ------------------------------------------------------- program constants
\* The floating-point unit 1.0 (the 1 of "1 - reduction_factor").
Scale == 1000
\* GAMMA = 0.1
GAMMA == 100
\* AdaptiveBeta defaults, the values run_all_scenarios passes.
upper_threshold == 150
lower_threshold == 50
reduction_factor == 400
increase_factor == 200
beta_min == 100
beta_max == 700
\* NonStationaryBeta parameters of run_all_scenarios.
intervention_reduction == 600
rebound_factor == 500

\* Baselines a policy is constructed with: below beta_min, the experiments'
\* BETA_0 = 0.5, above beta_max.
Beta0Set == {50, 500, 900}
\* Initial compartment fractions (S, I, R): I below the lower threshold (the
\* experiments' Y0), between the thresholds, above the upper threshold.
Y0Set == {<<990, 10, 0>>, <<900, 100, 0>>, <<800, 200, 0>>}
\* Infection levels a caller passes to a policy directly.
ISet == {10, 100, 200}
\* scenario_type arguments of run_scenario: the three the code knows, and
\* others.
Kinds == {"static", "nonstationary", "adaptive", "Static", "sir"}
\* rebound_time is None (<<>>) or a time (<<r>>).
NoTime == <<>>

Last(s) == s[Len(s)]

\* ---------------------------------------------------------------- policies
\* np.clip(x, lo, hi) = minimum(maximum(x, lo), hi)
ClipUnbounded(x, lo, hi) == x
Clip(x, lo, hi) ==
    LET m == IF x < lo THEN lo ELSE x IN IF m > hi THEN hi ELSE m

\* AdaptiveBeta.__call__: the value current_beta holds, and returns, after a
\* call that observes infection level I when it held cur.
AdaptiveCallSwapped(cur, I) ==
    LET upd == IF I > upper_threshold
                 THEN (cur * (Scale + increase_factor)) \div Scale
                 ELSE IF I < lower_threshold
                        THEN (cur * (Scale - reduction_factor)) \div Scale
                        ELSE cur
    IN Clip(upd, beta_min, beta_max)
AdaptiveCall(cur, I) ==
    LET upd == IF I > upper_threshold
                 THEN (cur * (Scale - reduction_factor)) \div Scale
                 ELSE IF I < lower_threshold
                        THEN (cur * (Scale + increase_factor)) \div Scale
                        ELSE cur
    IN Clip(upd, beta_min, beta_max)

\* AdaptiveBeta.reset: the value current_beta holds after reset().
ResetKeeps(cur, b0) == cur
AdaptiveReset(cur, b0) == b0

\* NonStationaryBeta.__init__: the rates of the phases.
BetaIntervention(b0) == (b0 * (Scale - intervention_reduction)) \div Scale
BetaRebound(b0, rt) ==
    IF rt # NoTime
      THEN BetaIntervention(b0)
           + ((b0 - BetaIntervention(b0)) * rebound_factor) \div Scale
      ELSE BetaIntervention(b0)

\* NonStationaryBeta.__call__
NonStationaryCallClosed(b0, it, rt, t, I) ==
    IF t <= it THEN b0
    ELSE IF rt = NoTime \/ t < rt[1] THEN BetaIntervention(b0)
    ELSE BetaRebound(b0, rt)
NonStationaryCall(b0, it, rt, t, I) ==
    IF t < it THEN b0
    ELSE IF rt = NoTime \/ t < rt[1] THEN BetaIntervention(b0)
    ELSE BetaRebound(b0, rt)

\* StaticBeta.__call__
StaticCall(b0, t, I) == b0

\* The call beta_func(t, I) of a policy without state; pol describes the
\* object: its class and its attributes.
PolicyRate(pol, t, I) ==
    IF pol.cls = "StaticBeta"
      THEN StaticCall(pol.beta_0, t, I)
      ELSE NonStationaryCall(pol.beta_0, pol.intervention_time,
                             pol.rebound_time, t, I)

\* ---------------------------------------------------------------- dynamics
\* sir_derivatives: <<dS/dt, dI/dt, dR/dt>> for state y and rate beta_t.
sir_derivatives(y, beta_t, gamma) ==
    LET inf == (beta_t * y[1] * y[2]) \div (Scale * Scale)
        rec == (gamma * y[2]) \div Scale
    IN <<0 - inf, inf - rec, rec>>

\* One step of length h of the integrator from state y with rate beta_t.
EulerStep(y, beta_t, gamma, h) ==
    LET d == sir_derivatives(y, beta_t, gamma)
    IN <<y[1] + h * d[1], y[2] + h * d[2], y[3] + h * d[3]>>

\* The output time after t on the grid of step h that ends at b: both ends of
\* the span are samples.
NextSampleT(t, b, h) == IF t + h < b THEN t + h ELSE b

\* solve_sir for a policy without state: the samples from (ts, sol) on.
RECURSIVE SolveFrom(_, _, _, _, _, _)
SolveFrom(ts, sol, b, pol, gamma, h) ==
    IF Last(ts) >= b
      THEN [t |-> ts, sol |-> sol]
      ELSE LET t == Last(ts)
               y == Last(sol)
               tn == NextSampleT(t, b, h)
               yn == EulerStep(y, PolicyRate(pol, t, y[2]), gamma, tn - t)
           IN SolveFrom(Append(ts, tn), Append(sol, yn), b, pol, gamma, h)
solve_sir(a, b, y, pol, gamma, h) == SolveFrom(<<a>>, <<y>>, b, pol, gamma, h)

\* -------------------------------------------------------------- statistics
\* np.argmax over the infected fractions: the first index of the maximum.
ArgMaxI(sol) ==
    CHOOSE i \in 1..Len(sol) :
        /\ \A j \in 1..Len(sol) : sol[j][2] <= sol[i][2]
        /\ \A j \in 1..(i - 1) : sol[j][2] < sol[i][2]

\* compute_summary_statistics
compute_summary_statistics(t, sol) ==
    LET peak_idx == ArgMaxI(sol)
        peak_infection == sol[peak_idx][2]
        below == {i \in peak_idx..Len(sol) : 1000 * sol[i][2] < peak_infection}
        first_below == CHOOSE i \in below : \A j \in below : i <= j
    IN [peak_infection |-> peak_infection,
        peak_time |-> t[peak_idx],
        final_size |-> Last(sol)[3],
        duration |-> IF below # {} THEN t[first_below] - t[1]
                                   ELSE Last(t) - t[1]]

\* The rate trace of the drivers without segments: beta_func(ti, 0) per sample.
BetaTrace(pol, t) == [i \in 1..Len(t) |-> PolicyRate(pol, t[i], 0)]

\* run_static_scenario and run_nonstationary_scenario: the returned record.
RunPure(a, b, y, pol, gamma, h) ==
    LET s == solve_sir(a, b, y, pol, gamma, h)
    IN [t |-> s.t, y |-> s.sol, beta |-> BetaTrace(pol, s.t),
        stats |-> compute_summary_statistics(s.t, s.sol)]
run_static_scenario(a, b, y, pol, gamma, h) == RunPure(a, b, y, pol, gamma, h)
run_nonstationary_scenario(a, b, y, pol, gamma, h) ==
    RunPure(a, b, y, pol, gamma, h)

\* run_scenario: the driver a scenario_type is dispatched to, or the error.
DriverFallsThrough(kind) ==
    IF kind = "static" THEN "static"
    ELSE IF kind = "nonstationary" THEN "nonstationary"
    ELSE "adaptive"
DriverOf(kind) ==
    IF kind = "static" THEN "static"
    ELSE IF kind = "nonstationary" THEN "nonstationary"
    ELSE IF kind = "adaptive" THEN "adaptive"
    ELSE "ValueError"

\* run_adaptive_scenario, "Store results": a list after a segment is added.
\* tfull is t_full before the segment is added.
StitchKeepAll(tfull, full, seg) == full \o seg
Stitch(tfull, full, seg) ==
    IF Len(tfull) = 0 THEN full \o seg ELSE full \o Tail(seg)

\* The rate recorded for the samples of a segment: current_beta, once per
\* sample added.
StitchBeta(tfull, full, seg, cur) ==
    IF Len(tfull) = 0
      THEN full \o [i \in 1..Len(seg) |-> cur]
      ELSE full \o [i \in 1..(Len(seg) - 1) |-> cur]

\* run_adaptive_scenario, "Update state for next segment".
NextStateFirst(sol) == sol[1]
NextState(sol) == sol[Len(sol)]

\* next_t = min(current_t + control_interval, t_end)
NextT(cur_t, ci, tend) == IF cur_t + ci < tend THEN cur_t + ci ELSE tend

\* The segment loop runs at most MaxSegs times in the model: a run over a
\* span of at most MaxT ticks with a positive interval needs at most MaxT.
MaxSegs == MaxT + 1

\* ------------------------------------------------------------------- state
VARIABLES
    \* the policy objects
    beta_0,             \* baseline rate the three policies are built with
    current_beta,       \* AdaptiveBeta.current_beta
    intervention_time,  \* NonStationaryBeta.intervention_time
    rebound_time,       \* NonStationaryBeta.rebound_time: NoTime or <<r>>
    \* the arguments of run_scenario
    scenario_type, t_start, t_end, y0, control_interval, dt,
    \* run_scenario and run_adaptive_scenario
    pc,                 \* "idle", "loop", "solving", "done", "error"
    driver,             \* the driver the last run_scenario call entered
    current_t, current_y, next_t, current_I,
    segment_t, segment_sol,      \* the samples solve_sir has produced
    t_full, y_full, beta_full,   \* y_full: S_full, I_full, R_full as triples
    result,             \* <<>> or <<the record the last call returned>>
    error,              \* "none" or the exception the last call raised
    \* bookkeeping of the model
    runs, idle_calls,
    solve_calls,        \* solve_sir invocations of the current call
    returned,           \* <<>> or <<rate the last AdaptiveBeta call returned>>
    seg_rates,          \* rates the policy returned during this segment
    beta_before,        \* current_beta when the segment began
    nsegments, nsamples,   \* segments finished, samples they returned
    hist_last_y, hist_end_t,  \* last sample of the segment finished last
    last_adaptive, prev_adaptive,  \* results of the last two adaptive runs
    \* a direct call of the scheduled policy
    sched_call,         \* <<>> or <<[t, I, rate]>>: the last call
    sched_prev          \* <<>> or the call before it

policy_vars == <<beta_0, current_beta, intervention_time, rebound_time>>
arg_vars == <<scenario_type, t_start, t_end, y0, control_interval, dt>>
loop_vars == <<current_t, current_y, next_t, current_I, segment_t, segment_sol,
               t_full, y_full, beta_full>>
hist_vars == <<seg_rates, beta_before, nsegments, nsamples, hist_last_y,
               hist_end_t, last_adaptive, prev_adaptive>>
sched_vars == <<sched_call, sched_prev>>
vars == <<policy_vars, arg_vars, loop_vars, hist_vars, sched_vars, pc, driver,
          result, error, runs, idle_calls, solve_calls, returned>>

\* No call of run_scenario is executing.
Idle == pc \in {"idle", "done", "error"}

\* The state every specification starts from, the policies and the arguments
\* aside.
InitRun ==
    /\ scenario_type = "none" /\ pc = "idle" /\ driver = "none"
    /\ current_t = 0 /\ current_y = <<0, 0, 0>> /\ next_t = 0 /\ current_I = 0
    /\ segment_t = <<>> /\ segment_sol = <<>>
    /\ t_full = <<>> /\ y_full = <<>> /\ beta_full = <<>>
    /\ result = <<>> /\ error = "none"
    /\ runs = 0 /\ idle_calls = 0 /\ solve_calls = 0 /\ returned = <<>>
    /\ seg_rates = <<>> /\ beta_before = 0 /\ nsegments = 0 /\ nsamples = 0
    /\ hist_last_y = <<0, 0, 0>> /\ hist_end_t = 0
    /\ last_adaptive = <<>> /\ prev_adaptive = <<>>
    /\ sched_call = <<>> /\ sched_prev = <<>>

\* The policies are constructed (current_beta = beta_0); the arguments the
\* caller will pass are chosen.
Init ==
    /\ beta_0 \in Beta0Set
    /\ current_beta = beta_0
    /\ intervention_time = 1
    /\ rebound_time = <<2>>
    /\ t_start \in 0..1
    /\ t_end \in t_start..MaxT
    /\ y0 \in Y0Set
    /\ control_interval \in 0..MaxInterval
    /\ dt \in 1..MaxDt
    /\ InitRun

\* --------------------------------------------------- direct policy calls
\* beta_func(t, I) on the adaptive policy, outside a run.
CallAdaptive(I) ==
    /\ Idle /\ idle_calls < MaxIdleCalls
    /\ current_beta' = AdaptiveCall(current_beta, I)
    /\ returned' = <<current_beta'>>
    /\ idle_calls' = idle_calls + 1
    /\ UNCHANGED <<beta_0, intervention_time, rebound_time, arg_vars, loop_vars,
                   hist_vars, sched_vars, pc, driver, result, error, runs,
                   solve_calls>>

\* beta_func.reset() on the adaptive policy, outside a run.
ResetAdaptive ==
    /\ Idle
    /\ current_beta' = AdaptiveReset(current_beta, beta_0)
    /\ UNCHANGED <<beta_0, intervention_time, rebound_time, arg_vars, loop_vars,
                   hist_vars, sched_vars, pc, driver, result, error, runs,
                   idle_calls, solve_calls, returned>>

\* beta_func(t, I) on the scheduled policy.
CallScheduled(t, I) ==
    /\ Idle
    /\ sched_prev' = sched_call
    /\ sched_call' = <<[t |-> t, I |-> I,
                        rate |-> NonStationaryCall(beta_0, intervention_time,
                                                   rebound_time, t, I)]>>
    /\ UNCHANGED <<policy_vars, arg_vars, loop_vars, hist_vars, pc, driver,
                   result, error, runs, idle_calls, solve_calls, returned>>

\* ------------------------------------------------------------ run_scenario
\* run_scenario('static', ...) with the StaticBeta policy.
RunStatic(kind) ==
    /\ Idle /\ runs < MaxRuns /\ DriverOf(kind) = "static"
    /\ scenario_type' = kind /\ driver' = "static"
    /\ result' = <<run_static_scenario(t_start, t_end, y0,
                       [cls |-> "StaticBeta", beta_0 |-> beta_0], GAMMA, dt)>>
    /\ pc' = "done" /\ error' = "none"
    /\ solve_calls' = 1 /\ runs' = runs + 1
    /\ UNCHANGED <<policy_vars, t_start, t_end, y0, control_interval, dt,
                   loop_vars, hist_vars, sched_vars, returned, idle_calls>>

\* run_scenario('nonstationary', ...) with the NonStationaryBeta policy.
RunNonStationary(kind) ==
    /\ Idle /\ runs < MaxRuns /\ DriverOf(kind) = "nonstationary"
    /\ scenario_type' = kind /\ driver' = "nonstationary"
    /\ result' = <<run_nonstationary_scenario(t_start, t_end, y0,
                       [cls |-> "NonStationaryBeta", beta_0 |-> beta_0,
                        intervention_time |-> intervention_time,
                        rebound_time |-> rebound_time], GAMMA, dt)>>
    /\ pc' = "done" /\ error' = "none"
    /\ solve_calls' = 1 /\ runs' = runs + 1
    /\ UNCHANGED <<policy_vars, t_start, t_end, y0, control_interval, dt,
                   loop_vars, hist_vars, sched_vars, returned, idle_calls>>

\* run_scenario('adaptive', ...) with the AdaptiveBeta policy, up to the
\* segment loop: the reset and the initialisation of the storage.
RunAdaptive(kind) ==
    /\ Idle /\ runs < MaxRuns /\ DriverOf(kind) = "adaptive"
    /\ scenario_type' = kind /\ driver' = "adaptive"
    /\ current_beta' = AdaptiveReset(current_beta, beta_0)
    /\ t_full' = <<>> /\ y_full' = <<>> /\ beta_full' = <<>>
    /\ current_y' = y0 /\ current_t' = t_start
    /\ pc' = "loop" /\ result' = <<>> /\ error' = "none"
    /\ solve_calls' = 0 /\ runs' = runs + 1
    /\ nsegments' = 0 /\ nsamples' = 0 /\ seg_rates' = <<>>
    /\ UNCHANGED <<beta_0, intervention_time, rebound_time, t_start, t_end, y0,
                   control_interval, dt, next_t, current_I, segment_t,
                   segment_sol, beta_before, hist_last_y, hist_end_t,
                   last_adaptive, prev_adaptive, sched_vars, returned,
                   idle_calls>>

\* run_scenario with any other scenario_type: raise ValueError.
RunUnknown(kind) ==
    /\ Idle /\ runs < MaxRuns /\ DriverOf(kind) = "ValueError"
    /\ scenario_type' = kind /\ driver' = "none"
    /\ pc' = "error" /\ error' = "ValueError" /\ result' = <<>>
    /\ solve_calls' = 0 /\ runs' = runs + 1
    /\ UNCHANGED <<policy_vars, t_start, t_end, y0, control_interval, dt,
                   loop_vars, hist_vars, sched_vars, returned, idle_calls>>

\* --------------------------------------------------- run_adaptive_scenario
\* The head of a loop iteration: next_t, the frozen infection level, and the
\* call of solve_sir((current_t, next_t), current_y, beta_wrapper, gamma, dt).
BeginSegment ==
    /\ pc = "loop" /\ current_t < t_end /\ nsegments < MaxSegs
    /\ next_t' = NextT(current_t, control_interval, t_end)
    /\ current_I' = current_y[2]
    /\ segment_t' = <<current_t>> /\ segment_sol' = <<current_y>>
    /\ seg_rates' = <<>> /\ beta_before' = current_beta
    /\ solve_calls' = solve_calls + 1
    /\ pc' = "solving"
    /\ UNCHANGED <<policy_vars, arg_vars, current_t, current_y, t_full, y_full,
                   beta_full, nsegments, nsamples, hist_last_y, hist_end_t,
                   last_adaptive, prev_adaptive, sched_vars, driver, result,
                   error, runs, idle_calls, returned>>

\* One step of solve_sir inside a segment: the derivative is evaluated, which
\* calls beta_wrapper(t, I), that is beta_func(t, current_I), and the next
\* sample is produced with the rate the call returned.
SolverStep ==
    /\ pc = "solving" /\ Last(segment_t) < next_t
    /\ current_beta' = AdaptiveCall(current_beta, current_I)
    /\ returned' = <<current_beta'>>
    /\ seg_rates' = Append(seg_rates, current_beta')
    /\ LET tn == NextSampleT(Last(segment_t), next_t, dt)
       IN /\ segment_t' = Append(segment_t, tn)
          /\ segment_sol' = Append(segment_sol,
                 EulerStep(Last(segment_sol), current_beta', GAMMA,
                           tn - Last(segment_t)))
    /\ UNCHANGED <<beta_0, intervention_time, rebound_time, arg_vars,
                   current_t, current_y, next_t, current_I, t_full, y_full,
                   beta_full, beta_before, nsegments, nsamples, hist_last_y,
                   hist_end_t, last_adaptive, prev_adaptive, sched_vars, pc,
                   driver, result, error, runs, idle_calls, solve_calls>>

\* solve_sir returns; the rest of the loop iteration: the segment is added to
\* the stored results and the state for the next segment is set.
EndSegment ==
    /\ pc = "solving" /\ Last(segment_t) >= next_t
    /\ t_full' = Stitch(t_full, t_full, segment_t)
    /\ y_full' = Stitch(t_full, y_full, segment_sol)
    /\ beta_full' = StitchBeta(t_full, beta_full, segment_t, current_beta)
    /\ current_y' = NextState(segment_sol)
    /\ current_t' = next_t
    /\ pc' = "loop"
    /\ nsegments' = nsegments + 1
    /\ nsamples' = nsamples + Len(segment_t)
    /\ hist_last_y' = Last(segment_sol) /\ hist_end_t' = Last(segment_t)
    /\ UNCHANGED <<policy_vars, arg_vars, next_t, current_I, segment_t,
                   segment_sol, seg_rates, beta_before, last_adaptive,
                   prev_adaptive, sched_vars, driver, result, error, runs,
                   idle_calls, solve_calls, returned>>

\* The loop has ended: the statistics and the returned record.  np.argmax
\* raises ValueError on the empty lists of a run whose loop never ran.  The
\* locals of the call are gone when it returns.
Finish ==
    /\ pc = "loop" /\ current_t >= t_end
    /\ IF Len(t_full) = 0
         THEN /\ pc' = "error" /\ error' = "ValueError" /\ result' = <<>>
              /\ UNCHANGED <<last_adaptive, prev_adaptive>>
         ELSE /\ pc' = "done" /\ error' = "none"
              /\ result' = <<[t |-> t_full, y |-> y_full, beta |-> beta_full,
                              stats |-> compute_summary_statistics(t_full,
                                                                   y_full)]>>
              /\ prev_adaptive' = last_adaptive
              /\ last_adaptive' = result'
    /\ current_t' = 0 /\ current_y' = <<0, 0, 0>> /\ next_t' = 0
    /\ current_I' = 0 /\ segment_t' = <<>> /\ segment_sol' = <<>>
    /\ t_full' = <<>> /\ y_full' = <<>> /\ beta_full' = <<>>
    /\ seg_rates' = <<>> /\ beta_before' = 0
    /\ hist_last_y' = <<0, 0, 0>> /\ hist_end_t' = 0
    /\ UNCHANGED <<policy_vars, arg_vars, nsegments, nsamples, sched_vars,
                   driver, runs, idle_calls, solve_calls, returned>>

Next ==
    \/ \E I \in ISet : CallAdaptive(I)
    \/ ResetAdaptive
    \/ \E kind \in Kinds : RunStatic(kind)
    \/ \E kind \in Kinds : RunNonStationary(kind)
    \/ \E kind \in Kinds : RunAdaptive(kind)
    \/ \E kind \in Kinds : RunUnknown(kind)
    \/ BeginSegment
    \/ SolverStep
    \/ EndSegment
    \/ Finish

Spec == Init /\ [][Next]_vars

\* The scheduled policy alone: it is constructed with any breakpoints, in
\* either order, and called with any time and infection level.
InitPolicy ==
    /\ beta_0 \in Beta0Set
    /\ current_beta = beta_0
    /\ intervention_time \in 0..MaxT
    /\ rebound_time \in {NoTime} \cup {<<r>> : r \in 0..MaxT}
    /\ t_start = 0 /\ t_end = 0 /\ y0 = <<990, 10, 0>>
    /\ control_interval = 1 /\ dt = 1
    /\ InitRun

NextPolicy == \E t \in 0..(MaxT + 1), I \in ISet : CallScheduled(t, I)

SpecPolicy == InitPolicy /\ [][NextPolicy]_vars

\* ================================================================== claims
StrictlyIncreasing(s) == \A i \in 1..(Len(s) - 1) : s[i] < s[i + 1]
KnownKinds == {"static", "nonstationary", "adaptive"}

\* C1 (as claimed): inside one segment of run_adaptive_scenario every
\* evaluation of the policy after the first returns the rate the first one
\* returned and leaves current_beta at it (seg_rates holds the value
\* current_beta had, and the call returned, after each evaluation).
C1_OneUpdatePerSegment ==
    pc = "solving" =>
        \A i \in 1..Len(seg_rates) : seg_rates[i] = seg_rates[1]

\* C2: in an adaptive run with t_start < t_end and a positive control
\* interval the stitched times are strictly increasing, begin at t_start, end
\* at the end of the last segment added (t_end in the returned record), and
\* hold every sample of every segment but the first sample of each segment
\* after the first.
C2_StitchedTimes ==
    (driver = "adaptive" /\ t_start < t_end /\ control_interval > 0) =>
        /\ StrictlyIncreasing(t_full)
        /\ (pc = "loop" /\ nsegments >= 1) =>
               /\ t_full[1] = t_start
               /\ Last(t_full) = current_t
               /\ Len(t_full) = nsamples - (nsegments - 1)
               /\ Len(y_full) = Len(t_full)
        /\ pc = "done" =>
               /\ StrictlyIncreasing(result[1].t)
               /\ result[1].t[1] = t_start
               /\ Last(result[1].t) = t_end
               /\ Len(result[1].t) = nsamples - (nsegments - 1)
               /\ Len(result[1].y) = Len(result[1].t)

\* An adaptive run of several segments, the last one clipped to t_end, has
\* returned.
C2_Witness ==
    /\ driver = "adaptive" /\ pc = "done" /\ nsegments >= 2
    /\ control_interval > 0 /\ t_start + 2 * control_interval > t_end
    /\ t_start + control_interval < t_end
    /\ nsamples > Len(result[1].t)

\* C3: the integrator is given, for the first segment, the caller's initial
\* state at t_start, and for every later segment the last state of the
\* segment before it at the time that segment ended.
C3_Continuity ==
    (driver = "adaptive" /\ pc = "solving") =>
        IF nsegments = 0
          THEN segment_sol[1] = y0 /\ segment_t[1] = t_start
          ELSE segment_sol[1] = hist_last_y /\ segment_t[1] = hist_end_t

\* A later segment is being integrated from a state the segment before it
\* reached.
C3_Witness ==
    /\ driver = "adaptive" /\ pc = "solving" /\ nsegments >= 1
    /\ hist_last_y # y0 /\ segment_sol[1] = hist_last_y
    /\ Len(segment_sol) >= 2

C5_RunsRepeat == prev_adaptive # <<>> => last_adaptive = prev_adaptive

\* Two adaptive runs have returned, and the first left the policy at a rate
\* other than its baseline.
C5_Witness ==
    /\ prev_adaptive # <<>>
    /\ Last(prev_adaptive[1].beta) # beta_0

\* C6 (as claimed): with beta_0 = 0.5 and the default thresholds, factors and
\* bounds, at a checkpoint that observes I > 0.15 current_beta is strictly
\* smaller after the update than before it, and at one that observes I < 0.05
\* it is strictly larger.
C6_StrictChange ==
    (beta_0 = 500 /\ pc = "solving" /\ Len(seg_rates) >= 1) =>
        /\ current_I > upper_threshold => seg_rates[1] < beta_before
        /\ current_I < lower_threshold => seg_rates[1] > beta_before

\* C6 (amended): at such a checkpoint current_beta does not grow when
\* I > 0.15 and shrinks unless it was at beta_min already; it does not shrink
\* when I < 0.05 and grows unless it was at beta_max already.
C6_ChangeUpToClamp ==
    (beta_0 = 500 /\ pc = "solving" /\ Len(seg_rates) >= 1) =>
        /\ current_I > upper_threshold =>
               /\ current_beta <= beta_before
               /\ seg_rates[1] <= beta_before
               /\ beta_before > beta_min => seg_rates[1] < beta_before
        /\ current_I < lower_threshold =>
               /\ current_beta >= beta_before
               /\ seg_rates[1] >= beta_before
               /\ beta_before < beta_max => seg_rates[1] > beta_before

\* A checkpoint observes I < 0.05 when the rate is at beta_max: it stays.
C6_Witness ==
    /\ beta_0 = 500 /\ pc = "solving" /\ Len(seg_rates) >= 1
    /\ current_I < lower_threshold
    /\ beta_before = beta_max /\ seg_rates[1] = beta_max

\* C7 (as claimed): the scheduled policy returns beta_0 for t before
\* intervention_time, beta_0 * (1 - intervention_reduction) from
\* intervention_time on and before the rebound time (for all later t when
\* rebound_time is unset), and the rebound rate for t >= rebound_time.
C7_Phases ==
    sched_call # <<>> =>
        LET c == sched_call[1]
            post == (beta_0 * (Scale - intervention_reduction)) \div Scale
        IN /\ c.t < intervention_time => c.rate = beta_0
           /\ (c.t >= intervention_time
               /\ (rebound_time = NoTime \/ c.t < rebound_time[1]))
                  => c.rate = post
           /\ (rebound_time # NoTime /\ c.t >= rebound_time[1])
                  => c.rate = BetaRebound(beta_0, rebound_time)

\* The rates of C7 (amended) in the state after a call.
C7_PhasesInOrderState ==
    sched_call # <<>> =>
        LET c == sched_call[1]
            post == (beta_0 * (Scale - intervention_reduction)) \div Scale
        IN /\ c.t < intervention_time => c.rate = beta_0
           /\ (c.t >= intervention_time
               /\ (rebound_time = NoTime \/ c.t < rebound_time[1]))
                  => c.rate = post
           /\ (rebound_time # NoTime /\ c.t >= rebound_time[1]
               /\ c.t >= intervention_time)
                  => c.rate = BetaRebound(beta_0, rebound_time)
           /\ (sched_prev # <<>> /\ sched_prev[1].t = c.t)
                  => sched_prev[1].rate = c.rate

\* C7 (amended): as claimed, except that the rebound rate is returned for
\* t >= rebound_time only when t >= intervention_time too; a call at the same
\* t returns the same rate whatever the infection argument, and no call
\* changes an attribute of the policy.
C7_PhasesInOrder ==
    /\ []C7_PhasesInOrderState
    /\ [][<<beta_0, intervention_time, rebound_time>>'
              = <<beta_0, intervention_time, rebound_time>>]_vars

\* The policy is called twice at a time at or after rebound_time and before
\* intervention_time, with different infection arguments.
C7_Witness ==
    /\ sched_call # <<>> /\ sched_prev # <<>>
    /\ rebound_time # NoTime
    /\ sched_call[1].t >= rebound_time[1]
    /\ sched_call[1].t < intervention_time
    /\ sched_prev[1].t = sched_call[1].t
    /\ sched_prev[1].I # sched_call[1].I
    /\ sched_call[1].rate = beta_0

\* C8: run_scenario enters the static driver for 'static', the scheduled
\* driver for 'nonstationary' and the adaptive driver for 'adaptive'; for any
\* other scenario_type it raises ValueError, having called no integrator and
\* returned nothing, and the call leaves current_beta as it was.
C8_Dispatch ==
    /\ [](/\ scenario_type = "static" =>
                 /\ driver = "static" /\ pc = "done"
                 /\ \A i \in 1..Len(result[1].beta) :
                        result[1].beta[i] = beta_0
          /\ scenario_type = "nonstationary" =>
                 /\ driver = "nonstationary" /\ pc = "done"
                 /\ \A i \in 1..Len(result[1].beta) :
                        result[1].beta[i] =
                            NonStationaryCall(beta_0, intervention_time,
                                              rebound_time, result[1].t[i], 0)
          /\ scenario_type = "adaptive" => driver = "adaptive"
          /\ scenario_type \notin (KnownKinds \cup {"none"}) =>
                 /\ driver = "none" /\ pc = "error" /\ error = "ValueError"
                 /\ result = <<>> /\ solve_calls = 0)
    /\ [][(runs' = runs + 1 /\ scenario_type' \notin KnownKinds)
              => (current_beta' = current_beta /\ returned' = returned)]_vars

\* A call with an unknown scenario_type has failed while the adaptive policy
\* held a rate other than its baseline.
C8_Witness ==
    /\ scenario_type = "sir" /\ pc = "error" /\ error = "ValueError"
    /\ current_beta # beta_0

\* C9 (as claimed): an adaptive run asked for with a non-positive control
\* interval or step size has failed with an error: it integrates no segment,
\* evaluates the policy never and stores no sample.
C9_RejectsNonPositive ==
    (scenario_type = "adaptive" /\ (control_interval <= 0 \/ dt <= 0)) =>
        /\ pc = "error"
        /\ solve_calls = 0 /\ seg_rates = <<>> /\ t_full = <<>>

\* C10 (as claimed): every iteration of the segment loop strictly advances
\* current_t.
C10_LoopAdvances ==
    [][(pc = "solving" /\ pc' = "loop") => current_t' > current_t]_vars

\* C11 (as claimed): after a segment is stored the rate trace has one entry
\* per time sample, every sample the segment contributed carries the rate
\* its first evaluation of the policy produced, that rate is the one every
\* evaluation of the segment gave the dynamics, and the policy has not been
\* called since the solver returned.
C11_TraceIsSegmentRate ==
    (driver = "adaptive" /\ pc = "loop" /\ nsegments >= 1
     /\ seg_rates # <<>>) =>
        LET k == IF nsegments = 1 THEN Len(segment_t)
                                  ELSE Len(segment_t) - 1
        IN /\ Len(beta_full) = Len(t_full)
           /\ \A i \in (Len(beta_full) - k + 1)..Len(beta_full) :
                  beta_full[i] = seg_rates[1]
           /\ \A j \in 1..Len(seg_rates) : seg_rates[j] = seg_rates[1]
           /\ current_beta = Last(seg_rates)

====
